---------------------------- MODULE Spec2Model ----------------------------
(***************************************************************************)
(* Model of scripts/mgear/maya/rigbits/rbf_node.py: the attribute helpers  *)
(* and scene queries that tag rbf nodes with a setup name, a driver        *)
(* control name and a toggle attribute.  The scene is the host's: a fixed  *)
(* population of nodes, each of a node type, each carrying dynamic         *)
(* attributes.  Every module function is an operator from the scene to an  *)
(* outcome (the scene afterwards, and the value returned or the exception  *)
(* raised); every action applies one function and records its outcome.     *)
(***************************************************************************)
EXTENDS Integers, Sequences, FiniteSets, TLC

\* ------------------------------------------------------------- bounds
NumNodes == 2
NumNames == 3

NodePool == <<"rbfA", "rbfB", "rbfC", "rbfD", "rbfE">>
SetupNamePool == <<"", "empty", "armSetup", "legSetup", "spineSetup">>
ControlNamePool == <<"", "arm_ctl", "leg_ctl", "spine_ctl", "neck_ctl">>

Nodes == {NodePool[i] : i \in 1..NumNodes}
SetupNames == {SetupNamePool[i] : i \in 1..NumNames}
ControlNames == {ControlNamePool[i] : i \in 1..NumNames}

\* ---------------------------------------------------- module constants
RBF_SETUP_ATTR == "rbf_setup_name"
DRIVER_CTL_ATTR_NAME == "driverControlName"
RBF_SCALE_ATTR == "RBF_Multiplier"
SUPPORTED_RBF_NODES == {"weightDriver"}

AttrNames == {RBF_SETUP_ATTR, DRIVER_CTL_ATTR_NAME, RBF_SCALE_ATTR}
NodeTypes == SUPPORTED_RBF_NODES \cup {"transform"}

\* ------------------------------------------------------- python values
\* A value is a record (t, v): t the python type, v its content.
PyNone == [t |-> "None", v |-> ""]
PyStr(s) == [t |-> "str", v |-> s]
PyFloat(s) == [t |-> "float", v |-> s]
PyList(q) == [t |-> "list", v |-> q]
PyDict(d) == [t |-> "dict", v |-> d]
PyExc(e) == [t |-> "exception", v |-> e]
\* The slot of an attribute the node does not carry.
Missing == [t |-> "missing", v |-> ""]

\* An outcome of a call: the scene afterwards, and what came back.
Return(scene, val) == [scene |-> scene, kind |-> "return", val |-> val]
Raise(scene, exc) == [scene |-> scene, kind |-> "raise", val |-> PyExc(exc)]

\* All orders in which the elements of S can be listed.
Orders(S) ==
    {q \in [1..Cardinality(S) -> S] : \A i, j \in 1..Cardinality(S) : i # j => q[i] # q[j]}

Range(q) == {q[i] : i \in 1..Len(q)}

VARIABLES nodeType, attrs, ret

vars == <<nodeType, attrs, ret>>


\* ------------------------------------------------------ host commands
\* mc.attributeQuery(attr, n=node, ex=True): does the node carry the attribute.
attributeQuery(scene, node, attr) == scene[node][attr].t # "missing"

\* Variant of addAttr that replaces an attribute the node already carries by a
\* fresh one instead of refusing it.
addAttr_replacing(scene, node, attr, dflt) ==
    Return([scene EXCEPT ![node][attr] = dflt], PyNone)

\* mc.addAttr(node, ln=attr, ...): a new attribute holding its default; the
\* host refuses a name the node already carries with a RuntimeError.
addAttr(scene, node, attr, dflt) ==
    IF attributeQuery(scene, node, attr)
    THEN Raise(scene, "RuntimeError")
    ELSE Return([scene EXCEPT ![node][attr] = dflt], PyNone)

\* mc.setAttr("node.attr", value, type="string")
setAttr(scene, node, attr, value) ==
    IF ~attributeQuery(scene, node, attr)
    THEN Raise(scene, "RuntimeError")
    ELSE Return([scene EXCEPT ![node][attr] = value], PyNone)

\* mc.getAttr("node.attr"): the stored value; a string attribute that was
\* never set reads as None; a missing attribute is a ValueError.
getAttr(scene, node, attr) ==
    IF ~attributeQuery(scene, node, attr)
    THEN Raise(scene, "ValueError")
    ELSE Return(scene, scene[node][attr])

\* mc.deleteAttr("node.attr")
deleteAttr(scene, node, attr) ==
    IF ~attributeQuery(scene, node, attr)
    THEN Raise(scene, "ValueError")
    ELSE Return([scene EXCEPT ![node][attr] = Missing], PyNone)

\* mc.ls(type=SUPPORTED_RBF_NODES): the nodes of a supported type, in the
\* host's order.  With no such node the listing yields either no value
\* (None) or an empty list; the module is written for both (the "or []" of
\* getSceneRBFNodes), so both are outcomes here.
ls(types) ==
    LET found == {n \in Nodes : types[n] \in SUPPORTED_RBF_NODES}
    IN  IF found = {}
        THEN {PyNone, PyList(<<>>)}
        ELSE {PyList(q) : q \in Orders(found)}

\* Python truth value of a listing result, as "x or []" tests it.
Falsy(x) == x.t = "None" \/ (x.t = "list" /\ x.v = <<>>)

\* --------------------------------------------------- module functions
createRBFToggleAttr(scene, node) ==
    LET r == addAttr(scene, node, RBF_SCALE_ATTR, PyFloat("1"))
    IN  IF r.kind = "raise" /\ r.val = PyExc("RuntimeError")
        THEN Return(r.scene, PyNone)
        ELSE r

deleteRBFToggleAttr(scene, node) ==
    LET r == deleteAttr(scene, node, RBF_SCALE_ATTR)
    IN  IF r.kind = "raise" /\ r.val = PyExc("ValueError")
        THEN Return(r.scene, PyNone)
        ELSE r

createDriverControlAttr(scene, node) ==
    LET r == addAttr(scene, node, DRIVER_CTL_ATTR_NAME, PyNone)
    IN  IF r.kind = "raise" /\ r.val = PyExc("RuntimeError")
        THEN Return(r.scene, PyNone)
        ELSE r

getDriverControlAttr(scene, node) ==
    LET r == getAttr(scene, node, DRIVER_CTL_ATTR_NAME)
    IN  IF r.kind = "raise" /\ r.val = PyExc("ValueError")
        THEN Return(r.scene, PyStr(""))
        ELSE r

\* Variant of setDriverControlAttr that never creates the attribute.
setDriverControlAttr_noCreate(scene, node, controlName) ==
    setAttr(scene, node, DRIVER_CTL_ATTR_NAME, PyStr(controlName))

setDriverControlAttr(scene, node, controlName) ==
    LET c == IF ~attributeQuery(scene, node, DRIVER_CTL_ATTR_NAME)
             THEN createDriverControlAttr(scene, node)
             ELSE Return(scene, PyNone)
    IN  IF c.kind = "raise"
        THEN c
        ELSE setAttr(c.scene, node, DRIVER_CTL_ATTR_NAME, PyStr(controlName))

getSceneRBFNodes(scene, listed) ==
    Return(scene, IF Falsy(listed) THEN PyList(<<>>) ELSE listed)

\* set(listed) is iterated in an arbitrary order; set(None) is a TypeError.
getSceneSetupNodes(scene, listed) ==
    IF listed.t = "None"
    THEN {Raise(scene, "TypeError")}
    ELSE {Return(scene,
                 PyList(SelectSeq(q, LAMBDA rbf : attributeQuery(scene, rbf, RBF_SETUP_ATTR))))
          : q \in Orders(Range(listed.v))}

\* The for loop of getRbfSceneSetupsInfo over the remaining nodes.
RECURSIVE SetupsLoop(_, _, _)
SetupsLoop(scene, nodes, setups_dict) ==
    IF nodes = <<>>
    THEN Return(scene, PyDict(setups_dict))
    ELSE LET rbfNode == Head(nodes)
             got == getAttr(scene, rbfNode, RBF_SETUP_ATTR)
             setupName == got.val
         IN  IF got.kind = "raise"
             THEN got
             ELSE IF setupName = PyStr("")
             THEN SetupsLoop(scene, Tail(nodes),
                             [setups_dict EXCEPT ![PyStr("empty")] = Append(@, rbfNode)])
             ELSE IF setupName \in DOMAIN setups_dict
             THEN SetupsLoop(scene, Tail(nodes),
                             [setups_dict EXCEPT ![setupName] = Append(@, rbfNode)])
             ELSE SetupsLoop(scene, Tail(nodes),
                             setups_dict @@ (setupName :> <<rbfNode>>))

\* setups_dict.pop("empty")
DictPop(d, key) == [k \in (DOMAIN d) \ {key} |-> d[k]]

getRbfSceneSetupsInfo(scene, listed, includeEmpty) ==
    {IF nodes.kind = "raise"
     THEN nodes
     ELSE LET r == SetupsLoop(scene, nodes.val.v, (PyStr("empty") :> <<>>))
          IN  IF r.kind = "raise" \/ includeEmpty
              THEN r
              ELSE Return(r.scene, PyDict(DictPop(r.val.v, PyStr("empty"))))
     : nodes \in getSceneSetupNodes(scene, listed)}

\* Variant of setSetupName that writes the name only into an attribute it has
\* just created and leaves an existing one as it is.
setSetupName_keepExisting(scene, node, setupName) ==
    IF attributeQuery(scene, node, RBF_SETUP_ATTR)
    THEN Return(scene, PyNone)
    ELSE setAttr(addAttr(scene, node, RBF_SETUP_ATTR, PyNone).scene,
                 node, RBF_SETUP_ATTR, PyStr(setupName))

setSetupName(scene, node, setupName) ==
    LET c == IF ~attributeQuery(scene, node, RBF_SETUP_ATTR)
             THEN addAttr(scene, node, RBF_SETUP_ATTR, PyNone)
             ELSE Return(scene, PyNone)
    IN  IF c.kind = "raise"
        THEN c
        ELSE setAttr(c.scene, node, RBF_SETUP_ATTR, PyStr(setupName))

getSetupName(scene, node) ==
    IF ~attributeQuery(scene, node, RBF_SETUP_ATTR)
    THEN Return(scene, PyNone)
    ELSE getAttr(scene, node, RBF_SETUP_ATTR)

\* ------------------------------------------------------------- state
\* The scene before any helper has run: the nodes and their types are the
\* host's, no node carries any of the module's attributes.
Init ==
    /\ nodeType \in [Nodes -> NodeTypes]
    /\ attrs = [n \in Nodes |-> [a \in AttrNames |-> Missing]]
    /\ ret = [op |-> "init", args |-> <<>>, kind |-> "return", val |-> PyNone]

\* One call: the scene becomes the outcome's, the outcome is recorded.
Call(op, args, r) ==
    /\ attrs' = r.scene
    /\ ret' = [op |-> op, args |-> args, kind |-> r.kind, val |-> r.val]
    /\ UNCHANGED nodeType

\* ------------------------------------------------------------ actions
CreateRBFToggleAttr(n) == Call("createRBFToggleAttr", <<n>>, createRBFToggleAttr(attrs, n))

DeleteRBFToggleAttr(n) == Call("deleteRBFToggleAttr", <<n>>, deleteRBFToggleAttr(attrs, n))

CreateDriverControlAttr(n) ==
    Call("createDriverControlAttr", <<n>>, createDriverControlAttr(attrs, n))

GetDriverControlAttr(n) == Call("getDriverControlAttr", <<n>>, getDriverControlAttr(attrs, n))

SetDriverControlAttr(n, c) ==
    Call("setDriverControlAttr", <<n, c>>, setDriverControlAttr(attrs, n, c))

GetSceneRBFNodes ==
    \E listed \in ls(nodeType) :
        Call("getSceneRBFNodes", <<>>, getSceneRBFNodes(attrs, listed))

GetSceneSetupNodes ==
    \E listed \in ls(nodeType) :
        \E r \in getSceneSetupNodes(attrs, listed) :
            Call("getSceneSetupNodes", <<>>, r)

GetRbfSceneSetupsInfo(includeEmpty) ==
    \E listed \in ls(nodeType) :
        \E r \in getRbfSceneSetupsInfo(attrs, listed, includeEmpty) :
            Call("getRbfSceneSetupsInfo", <<includeEmpty>>, r)

SetSetupName(n, s) == Call("setSetupName", <<n, s>>, setSetupName(attrs, n, s))

GetSetupName(n) == Call("getSetupName", <<n>>, getSetupName(attrs, n))

\* RBFNode(name) wraps an existing node of a supported type; its two setup
\* methods hand the node's name to the module functions.
RBFNode_setSetupName(n, s) ==
    /\ nodeType[n] \in SUPPORTED_RBF_NODES
    /\ Call("RBFNode.setSetupName", <<n, s>>, setSetupName(attrs, n, s))

RBFNode_getSetupName(n) ==
    /\ nodeType[n] \in SUPPORTED_RBF_NODES
    /\ Call("RBFNode.getSetupName", <<n>>, getSetupName(attrs, n))

\* --------------------------------------------------- specifications
\* The setup-name helpers and the scene queries.
NextSetup ==
    \/ \E n \in Nodes, s \in SetupNames : SetSetupName(n, s)
    \/ \E n \in Nodes : GetSetupName(n)
    \/ \E n \in Nodes, s \in SetupNames : RBFNode_setSetupName(n, s)
    \/ \E n \in Nodes : RBFNode_getSetupName(n)
    \/ GetSceneRBFNodes
    \/ GetSceneSetupNodes
    \/ \E includeEmpty \in BOOLEAN : GetRbfSceneSetupsInfo(includeEmpty)

SpecSetup == Init /\ [][NextSetup]_vars

\* The driver-control and toggle attribute helpers; none of them reads a
\* node's type.
NextDriver ==
    \/ \E n \in Nodes : CreateDriverControlAttr(n)
    \/ \E n \in Nodes : GetDriverControlAttr(n)
    \/ \E n \in Nodes, c \in ControlNames : SetDriverControlAttr(n, c)
    \/ \E n \in Nodes : CreateRBFToggleAttr(n)
    \/ \E n \in Nodes : DeleteRBFToggleAttr(n)

InitDriver == Init /\ nodeType = [n \in Nodes |-> "weightDriver"]

SpecDriver == InitDriver /\ [][NextDriver]_vars


\* ------------------------------------------------------------ claims
SetSetupOps == {"setSetupName", "RBFNode.setSetupName"}
GetSetupOps == {"getSetupName", "RBFNode.getSetupName"}

IsSetupNode(n) ==
    nodeType[n] \in SUPPORTED_RBF_NODES /\ attributeQuery(attrs, n, RBF_SETUP_ATTR)

\* The places <<key, index>> of a setups dict at which node n is listed.
Places(d, n) ==
    {p \in UNION {{<<k, i>> : i \in 1..Len(d[k])} : k \in DOMAIN d} : d[p[1]][p[2]] = n}

\* C1: a getSetupName(node) that directly follows setSetupName(node, s)
\* returns s, whether the node carried rbf_setup_name before the set or not
\* (neither call raises); getSetupName on a node without the attribute
\* returns None.
C1_SetThenGetSetupName ==
    [][ /\ (ret.op \in SetSetupOps /\ ret'.op \in GetSetupOps /\ ret'.args[1] = ret.args[1])
           => (ret.kind = "return" /\ ret'.kind = "return" /\ ret'.val = PyStr(ret.args[2]))
        /\ (ret'.op \in GetSetupOps /\ ~attributeQuery(attrs, ret'.args[1], RBF_SETUP_ATTR))
           => (ret'.kind = "return" /\ ret'.val = PyNone) ]_vars

\* A getSetupName has returned the name "empty" that a setSetupName stored.
C1_Witness ==
    ret.op = "getSetupName" /\ ret.kind = "return" /\ ret.val = PyStr("empty")

\* C2: a getDriverControlAttr(node) that directly follows
\* setDriverControlAttr(node, c) returns c, whether the node carried
\* driverControlName before the set or not; getDriverControlAttr on a node
\* without the attribute returns "" and does not raise.
C2_SetThenGetDriverControl ==
    [][ /\ (ret.op = "setDriverControlAttr" /\ ret'.op = "getDriverControlAttr"
            /\ ret'.args[1] = ret.args[1])
           => (ret.kind = "return" /\ ret'.kind = "return" /\ ret'.val = PyStr(ret.args[2]))
        /\ (ret'.op = "getDriverControlAttr"
            /\ ~attributeQuery(attrs, ret'.args[1], DRIVER_CTL_ATTR_NAME))
           => (ret'.kind = "return" /\ ret'.val = PyStr("")) ]_vars

\* A getDriverControlAttr has returned the control name "arm_ctl".
C2_Witness ==
    ret.op = "getDriverControlAttr" /\ ret.kind = "return" /\ ret.val = PyStr("arm_ctl")

\* C3: createDriverControlAttr(node) / createRBFToggleAttr(node) on a node
\* that already carries driverControlName / RBF_Multiplier raises nothing and
\* leaves every attribute of the scene, values included, as it was; after
\* any call, one more call on the same node changes nothing and raises nothing.
C3_CreateOnExistingIsNoOp ==
    [][ /\ ( \/ (ret'.op = "createDriverControlAttr"
                 /\ attributeQuery(attrs, ret'.args[1], DRIVER_CTL_ATTR_NAME))
             \/ (ret'.op = "createRBFToggleAttr"
                 /\ attributeQuery(attrs, ret'.args[1], RBF_SCALE_ATTR)) )
           => (ret'.kind = "return" /\ attrs' = attrs)
        /\ ret'.op = "createDriverControlAttr"
           => createDriverControlAttr(attrs', ret'.args[1]) = Return(attrs', PyNone)
        /\ ret'.op = "createRBFToggleAttr"
           => createRBFToggleAttr(attrs', ret'.args[1]) = Return(attrs', PyNone) ]_vars

\* createDriverControlAttr has run on a node whose driverControlName holds a
\* control name, so the attribute was there before the call.
C3_Witness ==
    /\ ret.op = "createDriverControlAttr"
    /\ attrs[ret.args[1]][DRIVER_CTL_ATTR_NAME] = PyStr("arm_ctl")

\* C4: getRbfSceneSetupsInfo() returns a dict in which every supported-type
\* node carrying rbf_setup_name is listed exactly once, under its setup name
\* (under "empty" when that name is ""), and no other node is listed.
C4_SetupsInfoListsEachSetupNodeOnce ==
    (ret.op = "getRbfSceneSetupsInfo" /\ ret.args[1] = TRUE)
    => /\ ret.kind = "return"
       /\ ret.val.t = "dict"
       /\ \A n \in Nodes :
            LET here == Places(ret.val.v, n)
                name == attrs[n][RBF_SETUP_ATTR]
                key == IF name = PyStr("") THEN PyStr("empty") ELSE name
            IN  IF IsSetupNode(n)
                THEN Cardinality(here) = 1 /\ \A p \in here : p[1] = key
                ELSE here = {}

\* C5: the dict getRbfSceneSetupsInfo(includeEmpty=False) returns lists a
\* node exactly when it is a supported-type node carrying rbf_setup_name
\* with a name other than "", and then under that name.
C5_ExcludeEmptyDropsOnlyEmptyNames ==
    (ret.op = "getRbfSceneSetupsInfo" /\ ret.args[1] = FALSE /\ ret.kind = "return")
    => \A n \in Nodes :
         LET here == Places(ret.val.v, n)
             name == attrs[n][RBF_SETUP_ATTR]
         IN  IF IsSetupNode(n) /\ name # PyStr("")
             THEN here # {} /\ \A p \in here : p[1] = name
             ELSE here = {}

\* C6: getSceneRBFNodes() and getSceneSetupNodes() return a list and do not
\* raise, and the list is empty when the scene holds no node of a supported
\* type.
C6_SceneListingsReturnLists ==
    ret.op \in {"getSceneRBFNodes", "getSceneSetupNodes"}
    => /\ ret.kind = "return"
       /\ ret.val.t = "list"
       /\ (\A n \in Nodes : nodeType[n] \notin SUPPORTED_RBF_NODES) => ret.val.v = <<>>

=============================================================================
